---- MODULE Spec2Model ----
(***************************************************************************)
(* Model of anomaly_detector.py: one detection run of detect_anomalies,   *)
(* with the three detectors statistical_detect, adtk_detect and ml_detect *)
(* and the fallback chain between them (Spec, SpecEntry), and of the web  *)
(* layer of app.py: the uploads, the job threads and the global           *)
(* current_job that /status returns (SpecWeb).                            *)
(*                                                                         *)
(* Numbers.  Feature values are small naturals, NaN (a missing cell) or   *)
(* Tenth (the decimal 0.1).  Scores are fixed-point numbers: an integer s *)
(* stands for s / Scale, truncated.  On naturals the float64 sums, means  *)
(* and deviations of the program are exact, and the model computes every  *)
(* comparison and score from exact integer numerators and denominators.   *)
(* 0.1 has no exact float64 representation: the mean of a column of 0.1   *)
(* is 0.1 or its float64 neighbour, depending on the number of rows.      *)
(***************************************************************************)
EXTENDS Integers, Sequences, FiniteSets, TLC

(* ---------------------------- bounds ---------------------------------- *)
MaxCells == 12       \* rows * features of an input table
MaxFeatures == 4     \* feature columns of an input table
Peak == 6            \* largest feature value
RawBase == 1         \* smallest raw decision score of COPOD
MaxEntryCells == 4   \* rows * features of an input table of SpecEntry
MaxJobs == 2         \* jobs submitted to the web layer
MaxLines == 2        \* lines a detector process prints
Scale == 10          \* fixed-point resolution of a score: units per 1.0

(* ------------------------ names and constants ------------------------- *)
NaN == -1
Tenth == -10
timestamp_col == 0
anomaly_score_0_100 == -2
top_contributors == -3
Methods == {"ml", "adtk", "statistical", "other"}

\* "Methods: statistical, adtk, ml" of the usage text
DocumentedMethods == {"ml", "adtk", "statistical"}

(* ---------------------------- arithmetic ------------------------------ *)
RECURSIVE SumSeq(_)
SumSeq(s) == IF s = <<>> THEN 0 ELSE Head(s) + SumSeq(Tail(s))

RECURSIVE SumSq(_)
SumSq(s) == IF s = <<>> THEN 0 ELSE Head(s) * Head(s) + SumSq(Tail(s))

RECURSIVE GCD(_, _)
GCD(a, b) == IF b = 0 THEN a ELSE GCD(b, a % b)

Min2(a, b) == IF b < a THEN b ELSE a

Max2(a, b) == IF b > a THEN b ELSE a

RECURSIVE IsqrtIn(_, _, _)
IsqrtIn(x, lo, hi) ==
    IF lo >= hi THEN lo
    ELSE LET mid == (lo + hi + 1) \div 2
         IN  IF mid * mid <= x THEN IsqrtIn(x, mid, hi) ELSE IsqrtIn(x, lo, mid - 1)

\* floor(sqrt(x)) for 0 <= x < (100 * Scale + 1)^2
Isqrt(x) == IsqrtIn(x, 0, 100 * Scale)

\* floor(k * a / b), with a / b reduced first
ScaledRatio(k, a, b) ==
    LET g == GCD(a, b)
    IN  IF a = 0 THEN 0 ELSE (k * (a \div g)) \div (b \div g)

\* floor(k * k * a / b) without forming k * k * a: with k * a = q * b + r,
\* k * k * a / b = k * q + k * r / b
ScaledRatioSq(k, a, b) ==
    LET g == GCD(a, b)
        q == (k * (a \div g)) \div (b \div g)
        r == (k * (a \div g)) % (b \div g)
    IN  IF a = 0 THEN 0 ELSE k * q + (k * r) \div (b \div g)

RECURSIVE InsertAsc(_, _)
InsertAsc(x, s) ==
    IF s = <<>> THEN <<x>>
    ELSE IF x <= Head(s) THEN <<x>> \o s ELSE <<Head(s)>> \o InsertAsc(x, Tail(s))

RECURSIVE SortAsc(_)
SortAsc(s) == IF s = <<>> THEN <<>> ELSE InsertAsc(Head(s), SortAsc(Tail(s)))

(* ------------------------------ tables -------------------------------- *)
\* a table: header (column names in order), number of data rows, and one
\* column of values per name
Table(h, n, c) == [readable |-> TRUE, header |-> h, rows |-> n, col |-> c]

NoTable == [readable |-> FALSE, header |-> <<>>, rows |-> 0, col |-> <<>>]

feature_cols(t) == SelectSeq(t.header, LAMBDA c : c # timestamp_col)

HasName(t, c) == \E k \in 1..Len(t.header) : t.header[k] = c

\* the non-missing values of a column (pandas skips NaN in mean/std/quantile)
Present(col) == SelectSeq(col, LAMBDA v : v # NaN)

(* ------------------------ contribution ranking ------------------------ *)
\* row_scores.items() is modelled as a sequence: one <<feature, sub-score>>
\* pair per feature, in feature_cols order
\* an insertion that puts x before the pairs with an equal sub-score
RECURSIVE InsertDesc_Unstable(_, _)
InsertDesc_Unstable(x, s) ==
    IF s = <<>> THEN <<x>>
    ELSE IF Head(s)[2] > x[2] THEN <<Head(s)>> \o InsertDesc_Unstable(x, Tail(s))
         ELSE <<x>> \o s

RECURSIVE InsertDesc(_, _)
InsertDesc(x, s) ==
    IF s = <<>> THEN <<x>>
    ELSE IF Head(s)[2] >= x[2] THEN <<Head(s)>> \o InsertDesc(x, Tail(s))
         ELSE <<x>> \o s

RECURSIVE SortDescFrom(_, _)
SortDescFrom(items, acc) ==
    IF items = <<>> THEN acc
    ELSE SortDescFrom(Tail(items), InsertDesc(Head(items), acc))

\* sorted(row_scores.items(), key=lambda x: x[1], reverse=True): a stable
\* sort, so pairs with equal sub-scores keep their feature_cols order
SortedDesc(items) == SortDescFrom(items, <<>>)

\* f"{score:.1f}": the sub-score in tenths, rounded to the nearest tenth
Fmt1(s) == (20 * s + Scale) \div (2 * Scale)

top_3(items) == SubSeq(SortedDesc(items), 1, Min2(3, Len(items)))

\* '; '.join(f"{feat}:{score:.1f}" ...): the printed pairs, in order
contrib_str(items) ==
    LET t == top_3(items) IN [k \in 1..Len(t) |-> <<t[k][1], Fmt1(t[k][2])>>]

RECURSIVE MaxScore(_)
MaxScore(items) ==
    IF items = <<>> THEN 0 ELSE Max2(MaxScore(Tail(items)), Head(items)[2])

(* ------------------------ Point-Statistic tier ------------------------ *)
Cnt(col) == Len(Present(col))

\* every row of the column holds 0.1
IsTenthCol(col) == Len(col) > 0 /\ \A i \in 1..Len(col) : col[i] = Tenth

\* df[col].mean() and np.mean of a column of n times 0.1 differ from 0.1:
\* in float64, ((0.1 + 0.1) + 0.1) / 3 = 0.10000000000000002, and likewise
\* for 6 and 7 rows, while the mean is exactly 0.1 for 1, 2, 4 and 5 rows
MeanInexact(col) == IsTenthCol(col) /\ Len(col) \in {3, 6, 7}

\* n * sum(v^2) - sum(v)^2 over the present values: n^2 times the
\* population variance, n * (n - 1) times the sample variance
Dev(col) == Cnt(col) * SumSq(Present(col)) - SumSeq(Present(col)) * SumSeq(Present(col))

\* stats[col]['std'] > 0, with df[col].std() the sample standard deviation
\* (NaN for fewer than two present values, and NaN > 0 is False); the
\* deviations from an inexact mean are not 0
StdPositive(col) == Cnt(col) >= 2 /\ (Dev(col) > 0 \/ MeanInexact(col))

\* ZNum with the population standard deviation
ZNum_Population(col, v) ==
    (Cnt(col) * v - SumSeq(Present(col))) * (Cnt(col) * v - SumSeq(Present(col)))
        * Cnt(col)

\* z^2 = ZNum / ZDen for z = |v - mean| / std; around an inexact mean all
\* n deviations are the same e # 0, std^2 = n * e^2 / (n - 1) and
\* z^2 = (n - 1) / n
ZNum(col, v) ==
    IF MeanInexact(col) THEN Cnt(col) - 1
    ELSE (Cnt(col) * v - SumSeq(Present(col))) * (Cnt(col) * v - SumSeq(Present(col)))
            * (Cnt(col) - 1)

ZDen(col) == IF MeanInexact(col) THEN Cnt(col) ELSE Cnt(col) * Dev(col)

\* min(100, (z_score / 3.0) * 100); for a missing value z_score is NaN and
\* min(100, NaN) is 100
ZSubScore(col, v) ==
    IF StdPositive(col)
    THEN IF v = NaN THEN 100 * Scale
         ELSE IF ZNum(col, v) >= 9 * ZDen(col) THEN 100 * Scale
         ELSE Isqrt(ScaledRatioSq(100 * Scale, ZNum(col, v), 9 * ZDen(col)))
    ELSE 0

StatItems(t, i) ==
    [k \in 1..Len(feature_cols(t)) |->
        <<feature_cols(t)[k],
          ZSubScore(t.col[feature_cols(t)[k]], t.col[feature_cols(t)[k]][i])>>]

\* the detector's result from the row_scores of every row
Result(rs) ==
    [row_scores    |-> rs,
     scores        |-> [i \in 1..Len(rs) |-> MaxScore(rs[i])],
     contributions |-> [i \in 1..Len(rs) |-> contrib_str(rs[i])]]

statistical_detect(t) == Result([i \in 1..t.rows |-> StatItems(t, i)])

(* ------------------------- Distribution tier -------------------------- *)
\* 4 * df_ts[col].quantile(p / 4) for p = 1, 3: linear interpolation between
\* the order statistics around position p * (n - 1) / 4
Quart4(col, p) ==
    LET s  == SortAsc(Present(col))
        lo == (p * (Len(s) - 1)) \div 4
        r  == (p * (Len(s) - 1)) % 4
    IN  IF r = 0 THEN 4 * s[lo + 1]
        ELSE 4 * s[lo + 1] + r * (s[lo + 2] - s[lo + 1])

IQR4(col) == Quart4(col, 3) - Quart4(col, 1)

\* anomalies.iloc[idx] of InterQuartileRangeAD(c=1.5): True outside
\* [Q1 - 1.5 IQR, Q3 + 1.5 IQR], NaN (which is truthy) for a missing value
Flagged(col, v) ==
    \/ v = NaN
    \/ /\ Cnt(col) > 0
       /\ \/ 8 * v < 2 * Quart4(col, 1) - 3 * IQR4(col)
          \/ 8 * v > 2 * Quart4(col, 3) + 3 * IQR4(col)

\* distance * IQR4: 4 * (q1 - value), 4 * (value - q3), or 0
Dist4(col, v) ==
    IF v # NaN /\ 4 * v < Quart4(col, 1) THEN Quart4(col, 1) - 4 * v
    ELSE IF v # NaN /\ 4 * v > Quart4(col, 3) THEN 4 * v - Quart4(col, 3)
    ELSE 0

\* IqrSubScore scoring every value, flagged or not
IqrSubScore_Ungated(col, v) ==
    IF Cnt(col) > 0 /\ IQR4(col) > 0
    THEN IF Dist4(col, v) >= 2 * IQR4(col) THEN 100 * Scale
         ELSE ScaledRatio(50 * Scale, Dist4(col, v), IQR4(col))
    ELSE 0

\* IqrSubScore without the min(100, ...)
IqrSubScore_NoClamp(col, v) ==
    IF Flagged(col, v) /\ Cnt(col) > 0 /\ IQR4(col) > 0
    THEN ScaledRatio(50 * Scale, Dist4(col, v), IQR4(col))
    ELSE 0

\* the try block: the sub-score of a flagged value is min(100, distance * 50),
\* of an unflagged one 0
IqrSubScore(col, v) ==
    IF Flagged(col, v)
    THEN IF Cnt(col) > 0 /\ IQR4(col) > 0
         THEN IF Dist4(col, v) >= 2 * IQR4(col) THEN 100 * Scale
              ELSE ScaledRatio(50 * Scale, Dist4(col, v), IQR4(col))
         ELSE 0
    ELSE 0

\* the except block: statistical fallback for this feature
FallbackSubScore(col, v) ==
    IF StdPositive(col)
    THEN IF v = NaN THEN 100 * Scale
         ELSE IF ZNum(col, v) >= 9 * ZDen(col) THEN 100 * Scale
         ELSE Isqrt(ScaledRatioSq(100 * Scale, ZNum(col, v), 9 * ZDen(col)))
    ELSE 0

\* AdtkSubScore with one try block around the whole row: a feature that
\* raises sends every feature of the row to the except block
AdtkSubScore_WholeRow(t, thr, i, c) ==
    IF thr # {} THEN FallbackSubScore(t.col[c], t.col[c][i])
    ELSE IqrSubScore(t.col[c], t.col[c][i])

\* thr: the features whose validate_series / detect call raises
AdtkSubScore(t, thr, i, c) ==
    IF c \in thr THEN FallbackSubScore(t.col[c], t.col[c][i])
    ELSE IqrSubScore(t.col[c], t.col[c][i])

AdtkItems(t, thr, i) ==
    [k \in 1..Len(feature_cols(t)) |->
        <<feature_cols(t)[k], AdtkSubScore(t, thr, i, feature_cols(t)[k])>>]

adtk_body(t, thr) == Result([i \in 1..t.rows |-> AdtkItems(t, thr, i)])

(* -------------------------- Multivariate tier ------------------------- *)
HasNaN(t) ==
    \E k \in 1..Len(feature_cols(t)) : \E i \in 1..t.rows :
        t.col[feature_cols(t)[k]][i] = NaN

\* One column of X after the imputation; the column is kept multiplied by
\* its number of present values so that the column mean stays an integer
\* (z-scores do not change when a column is multiplied by a constant).
\* A column without any present value stays NaN.
ImputeCol(col) ==
    IF Cnt(col) = 0 \/ IsTenthCol(col) THEN col
    ELSE [i \in 1..Len(col) |->
            IF col[i] = NaN THEN SumSeq(Present(col)) ELSE Cnt(col) * col[i]]

\* X = df[feature_cols].values, then X[np.isnan(X[:, i]), i] = col_means[i]
ImputedX(t) ==
    [k \in 1..Len(feature_cols(t)) |-> ImputeCol(t.col[feature_cols(t)[k]])]

\* n^2 * np.std(X[:, j])^2
DevX(xcol) == Len(xcol) * SumSq(xcol) - SumSeq(xcol) * SumSeq(xcol)

\* min(100, z_score * 25) with the population standard deviation of X;
\* around an inexact mean all deviations are the same e # 0, np.std is |e|
\* and z_score is 1
MlSubScore(xcol, x) ==
    IF MeanInexact(xcol) THEN 25 * Scale
    ELSE IF Cnt(xcol) = Len(xcol) /\ DevX(xcol) > 0
    THEN LET a == (Len(xcol) * x - SumSeq(xcol)) * (Len(xcol) * x - SumSeq(xcol))
         IN  IF a >= 16 * DevX(xcol) THEN 100 * Scale
             ELSE Isqrt(ScaledRatioSq(25 * Scale, a, DevX(xcol)))
    ELSE 0

MlItems(t, x, i) ==
    [k \in 1..Len(feature_cols(t)) |-> <<feature_cols(t)[k], MlSubScore(x[k], x[k][i])>>]

RECURSIVE SeqMin(_)
SeqMin(s) == IF Len(s) = 1 THEN s[1] ELSE Min2(Head(s), SeqMin(Tail(s)))

RECURSIVE SeqMax(_)
SeqMax(s) == IF Len(s) = 1 THEN s[1] ELSE Max2(Head(s), SeqMax(Tail(s)))

\* Normalize dividing by the maximum only: scores / max_score * 100
Normalize_ByMax(raw) ==
    IF SeqMax(raw) > SeqMin(raw)
    THEN [i \in 1..Len(raw) |-> ScaledRatio(100 * Scale, raw[i], SeqMax(raw))]
    ELSE [i \in 1..Len(raw) |-> 0]

\* ((scores - min_score) / (max_score - min_score)) * 100, or zeros
Normalize(raw) ==
    IF SeqMax(raw) > SeqMin(raw)
    THEN [i \in 1..Len(raw) |->
            ScaledRatio(100 * Scale, raw[i] - SeqMin(raw), SeqMax(raw) - SeqMin(raw))]
    ELSE [i \in 1..Len(raw) |-> 0]

ml_body(t, x, raw) ==
    [row_scores    |-> [i \in 1..t.rows |-> MlItems(t, x, i)],
     scores        |-> Normalize(raw),
     contributions |-> Result([i \in 1..t.rows |-> MlItems(t, x, i)]).contributions]

(* ------------------------- the input tables --------------------------- *)
\* a feature column of n rows: zeros, then the two values of tl in the last
\* two rows
Column(n, tl) ==
    [i \in 1..n |-> IF i = n THEN tl[2] ELSE IF i = n - 1 THEN tl[1] ELSE 0]

\* constant, one spike, a step before a peak, a missing value before a spike
Tails == {<<0, 0>>, <<0, 1>>, <<1, Peak>>, <<NaN, 1>>}

\* the spike and the step before a peak
VaryingTails == {<<0, 1>>, <<1, Peak>>}

\* the constant column 0.1, for the row counts below 8, where pandas, numpy
\* and bottleneck all add a column up in row order
TenthColumns(n) == IF n \in 1..7 THEN {[i \in 1..n |-> Tenth]} ELSE {}

\* the columns feature j may hold: any shape for the first feature, a
\* varying shape for the second, the spike for the further ones
Columns(n, j) ==
    IF j <= 1 THEN {Column(n, tl) : tl \in Tails} \cup TenthColumns(n)
    ELSE IF j = 2 THEN {Column(n, tl) : tl \in VaryingTails}
    ELSE {Column(n, <<0, 1>>)}

FeatureColumns(n, m) == {g \in [1..m -> Columns(n, 1)] : \A j \in 1..m : g[j] \in Columns(n, j)}

\* the timestamp column: the time ordinate of each row
Stamps(n) == [i \in 1..n |-> i]

Names(m) == [j \in 1..m |-> j]

\* tables with the timestamp column and m >= 0 feature columns
TsTables ==
    UNION {UNION {{Table(<<timestamp_col>> \o Names(m), n,
                         [c \in 0..m |-> IF c = timestamp_col THEN Stamps(n) ELSE g[c]]) :
                       g \in FeatureColumns(n, m)} :
                  m \in {k \in 0..MaxFeatures : n * k <= MaxCells}} :
           n \in 0..MaxCells}

\* tables without the timestamp column (at most one data row: the run never
\* looks at their rows)
NoTsTables ==
    UNION {UNION {{Table(Names(m), n, g) : g \in FeatureColumns(n, m)} :
                  m \in 1..MaxFeatures} :
           n \in 0..1}

InputFiles == TsTables \cup NoTsTables \cup {NoTable}

\* the decision scores COPOD returns for n rows: a base, optionally raised
\* by 2 in the last row and by 1 in the first
RawProfiles(n) ==
    {[i \in 1..n |-> RawBase + (IF hi /\ i = n THEN 2 ELSE 0)
                             + (IF mid /\ i = 1 THEN 1 ELSE 0)] :
        hi \in BOOLEAN, mid \in BOOLEAN}

\* the features whose evaluation may raise in one run: none, one, or all
ThrowSets(F) == {S \in SUBSET F : Cardinality(S) <= 1 \/ S = F}

(* ------------------------------- state -------------------------------- *)
VARIABLES
    entry,           \* who starts the run: "cli" (__main__) or "web" (upload_file)
    requested,       \* the method the user names, or "omitted"
    input,           \* the file at input_file (NoTable: it cannot be read)
    method,          \* the method argument of detect_anomalies
    ADTK_AVAILABLE,  \* set at import time
    PYOD_AVAILABLE,  \* set at import time
    pc,              \* position of detect_anomalies
    df,              \* the loaded table
    tier,            \* the detector that is running or has produced the result
    entered,         \* the detectors called so far, in call order
    degrades,        \* the fallbacks taken so far, as <<kind, feature>>
    X,               \* the feature matrix of ml_detect after imputation
    raw_scores,      \* detector.decision_function(X)
    throws,          \* the features whose evaluation in adtk_detect raised
    row_scores,      \* the row_scores dict of each row, as <<feature, sub-score>>
    anomaly_scores,  \* result of the detector
    contributions,   \* result of the detector
    output,          \* the file at output_file (NoTable: not written)
    diagnostics,     \* the lines printed so far
    retval,          \* "none" while running, then "True" or "False"
    summary,         \* the printed bucket counts and maximum
    job_summary,     \* the summary the web layer appends to current_job['output']
    current_job,     \* the global dict of app.py that /status returns
    threads,         \* the run_detection_background thread of each job
    latest,          \* the number of jobs submitted so far: the id of the latest
    request          \* position of the upload_file request being served

vars == <<entry, requested, input, method, ADTK_AVAILABLE, PYOD_AVAILABLE, pc, df, tier, entered,
          degrades, X, raw_scores, throws, row_scores, anomaly_scores, contributions,
          output, diagnostics, retval, summary, job_summary,
          current_job, threads, latest, request>>

\* the jobs of the web layer
jobs == <<current_job, threads, latest, request>>

\* the state of the web layer
web == <<job_summary, jobs>>

\* {'status': 'idle', 'output': '', 'progress': 0}; the output is kept as
\* the sequence of its pieces, each <<job, kind>>
IdleJob == [status |-> "idle", output |-> <<>>, progress |-> 0]

\* a thread that is not started: its position, the lines its process has
\* printed and the thread has not read, the state of the process and its
\* return code
NoThread == [pc |-> "none", lines |-> 0, proc |-> "none", rc |-> -1]

\* no job was submitted
NoJobs ==
    /\ current_job = IdleJob
    /\ threads = [j \in 1..MaxJobs |-> NoThread]
    /\ latest = 0
    /\ request = "none"

env == <<entry, requested, input, method, ADTK_AVAILABLE, PYOD_AVAILABLE>>

NoSummary == [high |-> 0, medium |-> 0, low |-> 0, max |-> 0]

NoJobSummary == [high |-> 0, medium |-> 0, low |-> 0, max |-> 0, total |-> 0]

\* the lines printed by the two import blocks
ImportLines(adtk, pyod) ==
    <<IF adtk THEN "ADTK available" ELSE "ADTK not available",
      IF pyod THEN "PyOD available" ELSE "PyOD not available">>

Entries == {"cli", "web"}

\* method = sys.argv[3] if len(sys.argv) > 3 else 'adtk' on the command
\* line, request.form.get('method', 'statistical') in the web layer, which
\* then always passes the method on the command line
RequestedMethod(e, r) ==
    IF r # "omitted" THEN r ELSE IF e = "web" THEN "statistical" ELSE "adtk"

\* the state of a run before detect_anomalies is called
InitRun ==
    /\ pc = "start"
    /\ df = NoTable
    /\ tier = "none"
    /\ entered = <<>>
    /\ degrades = <<>>
    /\ X = <<>>
    /\ raw_scores = <<>>
    /\ throws = {}
    /\ row_scores = <<>>
    /\ anomaly_scores = <<>>
    /\ contributions = <<>>
    /\ output = NoTable
    /\ diagnostics = ImportLines(ADTK_AVAILABLE, PYOD_AVAILABLE)
    /\ retval = "none"
    /\ summary = NoSummary
    /\ job_summary = NoJobSummary
    /\ NoJobs

\* runs from the command line with one of the documented methods named
Init ==
    /\ entry = "cli"
    /\ requested \in DocumentedMethods
    /\ input \in InputFiles
    /\ method = RequestedMethod(entry, requested)
    /\ ADTK_AVAILABLE \in BOOLEAN
    /\ PYOD_AVAILABLE \in BOOLEAN
    /\ InitRun

\* the input files of at most MaxEntryCells cells
EntryFiles ==
    {t \in InputFiles : t.rows * Len(SelectSeq(t.header, LAMBDA c : c # timestamp_col))
                            <= MaxEntryCells}

\* runs from the command line and from the web layer, with the method named
\* or omitted
InitEntry ==
    /\ entry \in Entries
    /\ requested \in Methods \cup {"omitted"}
    /\ input \in EntryFiles
    /\ method = RequestedMethod(entry, requested)
    /\ ADTK_AVAILABLE \in BOOLEAN
    /\ PYOD_AVAILABLE \in BOOLEAN
    /\ InitRun

(* --------------------------- detect_anomalies -------------------------- *)
\* Dispatch sending an unknown method to the Distribution detector
Dispatch_AdtkElse(m) ==
    IF m = "ml" THEN "ml" ELSE IF m = "statistical" THEN "statistical" ELSE "adtk"

\* if method == 'ml' ... elif method == 'adtk' ... else
Dispatch(m) == IF m = "ml" THEN "ml" ELSE IF m = "adtk" THEN "adtk" ELSE "statistical"

Say(lines) == diagnostics' = diagnostics \o lines

\* __main__: sys.exit(1) if not success, else the exit status 0; -1 while
\* the process runs
exit_status == IF retval = "True" THEN 0 ELSE IF retval = "False" THEN 1 ELSE -1

\* return False from detect_anomalies
Fail(lines) ==
    /\ Say(lines)
    /\ retval' = "False"
    /\ pc' = "done"

\* timestamp_col not in df.columns
TimestampMissing(t) == ~HasName(t, timestamp_col)

\* detect_anomalies without the feature column check
NoFeatureCols_Never(t) == FALSE

\* not feature_cols
NoFeatureCols(t) == feature_cols(t) = <<>>

\* pd.read_csv raises
LoadError ==
    /\ pc = "start"
    /\ ~input.readable
    /\ Fail(<<"Starting", "Error">>)
    /\ UNCHANGED <<env, web, df, tier, entered, degrades, X, raw_scores, throws,
                   row_scores, anomaly_scores, contributions, output, summary>>

NoTimestamp ==
    /\ pc = "start"
    /\ input.readable
    /\ TimestampMissing(input)
    /\ df' = input
    /\ Fail(<<"Starting", "Loaded", "Column not found">>)
    /\ UNCHANGED <<env, web, tier, entered, degrades, X, raw_scores, throws,
                   row_scores, anomaly_scores, contributions, output, summary>>

NoFeatures ==
    /\ pc = "start"
    /\ input.readable
    /\ ~TimestampMissing(input)
    /\ NoFeatureCols(input)
    /\ df' = input
    /\ Fail(<<"Starting", "Loaded", "No feature columns found">>)
    /\ UNCHANGED <<env, web, tier, entered, degrades, X, raw_scores, throws,
                   row_scores, anomaly_scores, contributions, output, summary>>

\* the table is valid: call the detector of the requested method
Load ==
    /\ pc = "start"
    /\ input.readable
    /\ ~TimestampMissing(input)
    /\ ~NoFeatureCols(input)
    /\ df' = input
    /\ Say(<<"Starting", "Loaded", "Analyzing features">>)
    /\ tier' = Dispatch(method)
    /\ pc' = "detect"
    /\ UNCHANGED <<env, web, entered, degrades, X, raw_scores, throws,
                   row_scores, anomaly_scores, contributions, output, retval, summary>>

(* ------------------------------ ml_detect ------------------------------ *)
\* ml_detect skipping the Distribution tier
ml_fallback_Skip == "statistical"

\* the detector ml_detect returns the result of when it cannot produce one
ml_fallback == "adtk"

MissingLine(t) == IF HasNaN(t) THEN <<"Handling missing values">> ELSE <<>>

\* the imputation writing the column means into df itself
DfAfterImpute_InPlace(t) ==
    [t EXCEPT !.col =
        [c \in DOMAIN t.col |->
            IF c = timestamp_col \/ Cnt(t.col[c]) = 0 THEN t.col[c]
            ELSE [i \in 1..t.rows |->
                    IF t.col[c][i] = NaN
                    THEN SumSeq(Present(t.col[c])) \div Cnt(t.col[c])
                    ELSE t.col[c][i]]]]

\* the table df after X was imputed in place: X is a copy, df is not touched
DfAfterImpute(t) == t

\* if not PYOD_AVAILABLE: return adtk_detect(df, timestamp_col)
MlUnavailable ==
    /\ pc = "detect" /\ tier = "ml"
    /\ ~PYOD_AVAILABLE
    /\ entered' = Append(entered, "ml")
    /\ degrades' = Append(degrades, <<"ml unavailable", 0>>)
    /\ tier' = ml_fallback
    /\ UNCHANGED <<env, web, pc, df, X, raw_scores, throws, row_scores, anomaly_scores,
                   contributions, output, diagnostics, retval, summary>>

\* an exception in the try block (COPOD always raises on a table without rows)
MlFails ==
    /\ pc = "detect" /\ tier = "ml"
    /\ PYOD_AVAILABLE
    /\ entered' = Append(entered, "ml")
    /\ X' = ImputedX(df)
    /\ df' = DfAfterImpute(df)
    /\ Say(<<"Using ML detection">> \o MissingLine(df) \o <<"ML detection failed">>)
    /\ degrades' = Append(degrades, <<"ml failed", 0>>)
    /\ tier' = ml_fallback
    /\ UNCHANGED <<env, web, pc, raw_scores, throws, row_scores, anomaly_scores, contributions,
                   output, retval, summary>>

MlDetect ==
    /\ pc = "detect" /\ tier = "ml"
    /\ PYOD_AVAILABLE
    /\ df.rows > 0
    /\ entered' = Append(entered, "ml")
    /\ X' = ImputedX(df)
    /\ df' = DfAfterImpute(df)
    /\ \E raw \in RawProfiles(df.rows) :
          LET r == ml_body(df, ImputedX(df), raw)
          IN  /\ raw_scores' = raw
              /\ row_scores' = r.row_scores
              /\ anomaly_scores' = r.scores
              /\ contributions' = r.contributions
    /\ Say(<<"Using ML detection">> \o MissingLine(df))
    /\ pc' = "detected"
    /\ UNCHANGED <<env, web, tier, degrades, throws, output, retval, summary>>

(* ----------------------------- adtk_detect ----------------------------- *)
\* adtk_detect handing the table back up to ml_detect
adtk_fallback_Up == "ml"

\* the detector adtk_detect returns the result of when it cannot produce one
adtk_fallback == "statistical"

\* if not ADTK_AVAILABLE: return statistical_detect(df, timestamp_col)
AdtkUnavailable ==
    /\ pc = "detect" /\ tier = "adtk"
    /\ ~ADTK_AVAILABLE
    /\ entered' = Append(entered, "adtk")
    /\ degrades' = Append(degrades, <<"adtk unavailable", 0>>)
    /\ tier' = adtk_fallback
    /\ UNCHANGED <<env, web, pc, df, X, raw_scores, throws, row_scores, anomaly_scores,
                   contributions, output, diagnostics, retval, summary>>

\* an exception in the outer try block (pd.to_datetime cannot parse the
\* timestamps)
AdtkFails ==
    /\ pc = "detect" /\ tier = "adtk"
    /\ ADTK_AVAILABLE
    /\ entered' = Append(entered, "adtk")
    /\ Say(<<"Using ADTK detection", "ADTK failed">>)
    /\ degrades' = Append(degrades, <<"adtk failed", 0>>)
    /\ tier' = adtk_fallback
    /\ UNCHANGED <<env, web, pc, df, X, raw_scores, throws, row_scores, anomaly_scores,
                   contributions, output, retval, summary>>

\* the features of thr, in column order, as per-feature fallbacks
FeatureDegrades(t, thr) ==
    [k \in 1..Len(SelectSeq(feature_cols(t), LAMBDA c : c \in thr)) |->
        <<"feature", SelectSeq(feature_cols(t), LAMBDA c : c \in thr)[k]>>]

\* the lines printed by the inner except block
FeatureLines(t, thr) == <<>>

AdtkDetect ==
    /\ pc = "detect" /\ tier = "adtk"
    /\ ADTK_AVAILABLE
    /\ entered' = Append(entered, "adtk")
    /\ \E thr \in ThrowSets({c \in DOMAIN df.col : c # timestamp_col /\ df.rows > 0}) :
          LET r == adtk_body(df, thr)
          IN  /\ throws' = thr
              /\ row_scores' = r.row_scores
              /\ anomaly_scores' = r.scores
              /\ contributions' = r.contributions
              /\ degrades' = degrades \o FeatureDegrades(df, thr)
              /\ Say(<<"Using ADTK detection">> \o FeatureLines(df, thr))
    /\ pc' = "detected"
    /\ UNCHANGED <<env, web, tier, df, X, raw_scores, output, retval, summary>>

(* -------------------------- statistical_detect ------------------------- *)
StatisticalDetect ==
    /\ pc = "detect" /\ tier = "statistical"
    /\ entered' = Append(entered, "statistical")
    /\ Say(<<"Using statistical detection">>)
    /\ LET r == statistical_detect(df)
       IN  /\ row_scores' = r.row_scores
           /\ anomaly_scores' = r.scores
           /\ contributions' = r.contributions
    /\ pc' = "detected"
    /\ UNCHANGED <<env, web, tier, df, degrades, X, raw_scores, throws, output,
                   retval, summary>>

(* ------------------------ output and summary --------------------------- *)
\* np.round(anomaly_scores, 1): the score in tenths
Round1(s) == (20 * s + Scale) \div (2 * Scale)

\* result_df: df.copy() with the two new columns appended
result_df(t, scores, contribs) ==
    Table(t.header \o <<anomaly_score_0_100, top_contributors>>, t.rows,
          [c \in (DOMAIN t.col) \cup {anomaly_score_0_100, top_contributors} |->
              IF c = anomaly_score_0_100 THEN [i \in 1..Len(scores) |-> Round1(scores[i])]
              ELSE IF c = top_contributors THEN contribs
              ELSE t.col[c]])

\* Buckets counting every row above 30 as medium
Buckets_Overlap(scores) ==
    [high   |-> Cardinality({i \in 1..Len(scores) : scores[i] > 70 * Scale}),
     medium |-> Cardinality({i \in 1..Len(scores) : scores[i] > 30 * Scale}),
     low    |-> Cardinality({i \in 1..Len(scores) : scores[i] <= 30 * Scale}),
     max    |-> Round1(SeqMax(scores))]

\* high, medium, low and the maximum printed with one decimal
Buckets(scores) ==
    [high   |-> Cardinality({i \in 1..Len(scores) : scores[i] > 70 * Scale}),
     medium |-> Cardinality({i \in 1..Len(scores) :
                                scores[i] > 30 * Scale /\ scores[i] <= 70 * Scale}),
     low    |-> Cardinality({i \in 1..Len(scores) : scores[i] <= 30 * Scale}),
     max    |-> Round1(SeqMax(scores))]

\* result_df.to_csv(output_file, index=False), then the summary lines;
\* anomaly_scores.max() raises on an empty array, after the file was written
\* and the first summary lines were printed
WriteOutput ==
    /\ pc = "detected"
    /\ output' = result_df(df, anomaly_scores, contributions)
    /\ IF Len(anomaly_scores) = 0
       THEN /\ Fail(<<"Detection completed", "Error">>)
            /\ UNCHANGED summary
       ELSE /\ summary' = Buckets(anomaly_scores)
            /\ Say(<<"Detection completed">>)
            /\ retval' = "True"
            /\ pc' = "done"
    /\ UNCHANGED <<env, web, df, tier, entered, degrades, X, raw_scores, throws,
                   row_scores, anomaly_scores, contributions>>

\* to_csv raises: the output location cannot be written
WriteError ==
    /\ pc = "detected"
    /\ Fail(<<"Error">>)
    /\ UNCHANGED <<env, web, df, tier, entered, degrades, X, raw_scores, throws,
                   row_scores, anomaly_scores, contributions, output, summary>>

(* ------------------- run_detection_background (app.py) ----------------- *)
\* the scores read back from the written file, in tenths
ReadScores(f) == f.col[anomaly_score_0_100]

\* the summary block: high, medium, low, max and len(df) of the file read
\* with pd.read_csv(output_path)
JobSummary(f) ==
    [high   |-> Cardinality({i \in 1..f.rows : ReadScores(f)[i] > 70 * 10}),
     medium |-> Cardinality({i \in 1..f.rows :
                                ReadScores(f)[i] > 30 * 10 /\ ReadScores(f)[i] <= 70 * 10}),
     low    |-> Cardinality({i \in 1..f.rows : ReadScores(f)[i] <= 30 * 10}),
     max    |-> SeqMax(ReadScores(f)),
     total  |-> f.rows]

\* return_code == 0, os.path.exists(output_path) and the score column is
\* in the file: the web layer computes its own summary from the file
LoadResults ==
    /\ pc = "done"
    /\ exit_status = 0
    /\ output.readable
    /\ HasName(output, anomaly_score_0_100)
    /\ job_summary' = JobSummary(output)
    /\ pc' = "reported"
    /\ UNCHANGED <<env, jobs, df, tier, entered, degrades, X, raw_scores, throws,
                   row_scores, anomaly_scores, contributions, output, diagnostics, retval,
                   summary>>

Next ==
    \/ LoadError
    \/ NoTimestamp
    \/ NoFeatures
    \/ Load
    \/ MlUnavailable
    \/ MlFails
    \/ MlDetect
    \/ AdtkUnavailable
    \/ AdtkFails
    \/ AdtkDetect
    \/ StatisticalDetect
    \/ WriteOutput
    \/ WriteError
    \/ LoadResults

Spec == Init /\ [][Next]_vars

SpecEntry == InitEntry /\ [][Next]_vars

(* ------------------------- the web layer (app.py) ---------------------- *)
\* the variables of a detector run
run == <<env, pc, df, tier, entered, degrades, X, raw_scores, throws, row_scores,
         anomaly_scores, contributions, output, diagnostics, retval, summary,
         job_summary>>

\* jsonify(current_job)
get_status == current_job

At(j, p) == threads[j].pc = p

Goto(j, p) == threads' = [threads EXCEPT ![j].pc = p]

\* current_job[f] = v: the global name is looked up when the statement
\* runs, so every thread writes to the dict of the latest upload
SetJob(f, v) == current_job' = [current_job EXCEPT ![f] = v]

\* current_job['output'] += ...
AddOutput(j, kind) == SetJob("output", Append(current_job.output, <<j, kind>>))

\* upload_file: current_job = {'status': 'idle', 'output': '', 'progress': 0}
UploadReset ==
    /\ request = "none"
    /\ current_job' = IdleJob
    /\ request' = "reset"
    /\ UNCHANGED <<run, threads, latest>>

\* upload_file: the detector script or the file is missing, or the file is
\* not a CSV file: flash and redirect, no thread is started
UploadReject ==
    /\ request = "reset"
    /\ request' = "none"
    /\ UNCHANGED <<run, current_job, threads, latest>>

\* upload_file: threading.Thread(target=run_detection_background, ...).start()
UploadStart ==
    /\ request = "reset"
    /\ latest < MaxJobs
    /\ latest' = latest + 1
    /\ threads' = [threads EXCEPT ![latest + 1] = [NoThread EXCEPT !.pc = "status"]]
    /\ request' = "none"
    /\ UNCHANGED <<run, current_job>>

\* current_job['status'] = 'running'
SetRunning(j) ==
    /\ At(j, "status")
    /\ SetJob("status", "running")
    /\ Goto(j, "banner")
    /\ UNCHANGED <<run, latest, request>>

\* current_job['output'] = 'Starting anomaly detection...'
Banner(j) ==
    /\ At(j, "banner")
    /\ SetJob("output", <<<<j, "start">>>>)
    /\ Goto(j, "p10")
    /\ UNCHANGED <<run, latest, request>>

\* current_job['progress'] = 10
Progress10(j) ==
    /\ At(j, "p10")
    /\ SetJob("progress", 10)
    /\ Goto(j, "command")
    /\ UNCHANGED <<run, latest, request>>

\* current_job['output'] += f"Command: ..."
Command(j) ==
    /\ At(j, "command")
    /\ AddOutput(j, "command")
    /\ Goto(j, "p20")
    /\ UNCHANGED <<run, latest, request>>

\* current_job['progress'] = 20
Progress20(j) ==
    /\ At(j, "p20")
    /\ SetJob("progress", 20)
    /\ Goto(j, "popen")
    /\ UNCHANGED <<run, latest, request>>

\* process = subprocess.Popen(cmd, ...): the process will print n lines
Popen(j) ==
    /\ At(j, "popen")
    /\ \E n \in 0..MaxLines :
          threads' = [threads EXCEPT ![j] =
                         [pc |-> "p30", lines |-> n, proc |-> "running", rc |-> -1]]
    /\ UNCHANGED <<run, current_job, latest, request>>

\* Popen raises: the except block of run_detection_background
PopenError(j) ==
    /\ At(j, "popen")
    /\ current_job' = [current_job EXCEPT
                          !.status = "failed",
                          !.output = Append(current_job.output, <<j, "error">>),
                          !.progress = 100]
    /\ Goto(j, "end")
    /\ UNCHANGED <<run, latest, request>>

\* current_job['progress'] = 30
Progress30(j) ==
    /\ At(j, "p30")
    /\ SetJob("progress", 30)
    /\ Goto(j, "read")
    /\ UNCHANGED <<run, latest, request>>

\* the detector process ends: sys.exit(1) or the end of the script
ProcessExit(j) ==
    /\ threads[j].proc = "running"
    /\ \E code \in {0, 1} :
          threads' = [threads EXCEPT ![j].proc = "exited", ![j].rc = code]
    /\ UNCHANGED <<run, current_job, latest, request>>

\* for line in process.stdout: current_job['output'] += line
ReadLine(j) ==
    /\ At(j, "read")
    /\ threads[j].lines > 0
    /\ AddOutput(j, "line")
    /\ threads' = [threads EXCEPT ![j].pc = "tick", ![j].lines = @ - 1]
    /\ UNCHANGED <<run, latest, request>>

\* if current_job['progress'] < 80: current_job['progress'] += 2
Tick(j) ==
    /\ At(j, "tick")
    /\ SetJob("progress", IF current_job.progress < 80 THEN current_job.progress + 2
                          ELSE current_job.progress)
    /\ Goto(j, "read")
    /\ UNCHANGED <<run, latest, request>>

\* the end of process.stdout, then return_code = process.wait()
Wait(j) ==
    /\ At(j, "read")
    /\ threads[j].lines = 0
    /\ threads[j].proc = "exited"
    /\ Goto(j, IF threads[j].rc = 0 THEN "completed" ELSE "failed")
    /\ UNCHANGED <<run, current_job, latest, request>>

\* current_job['status'] = 'completed'
Completed(j) ==
    /\ At(j, "completed")
    /\ SetJob("status", "completed")
    /\ Goto(j, "message")
    /\ UNCHANGED <<run, latest, request>>

\* current_job['output'] += 'Detection completed successfully!'
CompletedMessage(j) ==
    /\ At(j, "message")
    /\ AddOutput(j, "completed")
    /\ Goto(j, "p100")
    /\ UNCHANGED <<run, latest, request>>

\* current_job['progress'] = 100
Progress100(j) ==
    /\ At(j, "p100")
    /\ SetJob("progress", 100)
    /\ Goto(j, "summary")
    /\ UNCHANGED <<run, latest, request>>

\* the summary of the results file, or the line that it could not be read
JobSummaryLine(j) ==
    /\ At(j, "summary")
    /\ \E kind \in {"summary", "no summary"} : AddOutput(j, kind)
    /\ Goto(j, "end")
    /\ UNCHANGED <<run, latest, request>>

\* the results file or its score column does not exist: nothing is added
NoJobSummaryLine(j) ==
    /\ At(j, "summary")
    /\ Goto(j, "end")
    /\ UNCHANGED <<run, current_job, latest, request>>

\* return_code != 0: status 'failed', the return code, progress 100
Failed(j) ==
    /\ At(j, "failed")
    /\ current_job' = [current_job EXCEPT
                          !.status = "failed",
                          !.output = Append(current_job.output, <<j, "failed">>),
                          !.progress = 100]
    /\ Goto(j, "end")
    /\ UNCHANGED <<run, latest, request>>

\* one step of the thread of job j
ThreadStep(j) ==
    \/ SetRunning(j)
    \/ Banner(j)
    \/ Progress10(j)
    \/ Command(j)
    \/ Progress20(j)
    \/ Popen(j)
    \/ PopenError(j)
    \/ Progress30(j)
    \/ ReadLine(j)
    \/ Tick(j)
    \/ Wait(j)
    \/ Completed(j)
    \/ CompletedMessage(j)
    \/ Progress100(j)
    \/ JobSummaryLine(j)
    \/ NoJobSummaryLine(j)
    \/ Failed(j)

\* the web layer before the first upload; the detector runs in the
\* processes the threads start and is seen through the lines it prints and
\* its return code
WebInit ==
    /\ entry = "web"
    /\ requested = "omitted"
    /\ input = NoTable
    /\ method = RequestedMethod(entry, requested)
    /\ ADTK_AVAILABLE = FALSE
    /\ PYOD_AVAILABLE = FALSE
    /\ InitRun

WebNext ==
    \/ UploadReset
    \/ UploadReject
    \/ UploadStart
    \/ \E j \in 1..MaxJobs : ThreadStep(j)
    \/ \E j \in 1..MaxJobs : ProcessExit(j)

SpecWeb == WebInit /\ [][WebNext]_vars

(* ============================== claims ================================ *)
\* a detector has returned its result to detect_anomalies
HasResult == pc \in {"detected", "done", "reported"} /\ entered # <<>>

Last(q) == q[Len(q)]

FeatureCount(t) == Len(feature_cols(t))

(* C1: for every valid input, every requested method and every fallback   *)
(* path, the anomaly score of each row lies in [0, 100], in the            *)
(* detector's result and in the written anomaly_score_0_100 column.        *)
C1_ScoreInRange ==
    /\ \A i \in 1..Len(anomaly_scores) :
          anomaly_scores[i] >= 0 /\ anomaly_scores[i] <= 100 * Scale
    /\ output.readable =>
          \A i \in 1..output.rows :
             /\ output.col[anomaly_score_0_100][i] >= 0
             /\ output.col[anomaly_score_0_100][i] <= 100 * 10

\* a run that asked for ml, fell back to the Distribution detector and wrote
\* a row with the saturated score 100
C1_Witness ==
    /\ pc = "done" /\ retval = "True"
    /\ method = "ml" /\ tier = "adtk" /\ throws = {}
    /\ \E i \in 1..Len(anomaly_scores) : anomaly_scores[i] = 100 * Scale
    /\ \E i \in 1..output.rows : output.col[anomaly_score_0_100][i] = 100 * 10

Rank(t) ==
    CASE t = "ml" -> 3 [] t = "adtk" -> 2 [] t = "statistical" -> 1 [] OTHER -> 4

(* C2: within one run the active tier only moves downward along           *)
(* ml -> adtk -> statistical: the first detector is the one the method     *)
(* selects, every later one is strictly lower than the one before (so each *)
(* is entered at most once and a request for adtk never reaches ml), the   *)
(* Point-Statistic detector calls no other detector, and once a detector   *)
(* has returned there is one score and one contributor list per row.       *)
C2_OneWayDegrade ==
    /\ [](/\ \A k \in 1..Len(entered) - 1 : Rank(entered[k + 1]) < Rank(entered[k])
          /\ entered # <<>> => entered[1] = Dispatch(method)
          /\ HasResult => /\ Len(anomaly_scores) = df.rows
                          /\ Len(contributions) = df.rows)
    /\ [][/\ Rank(tier') <= Rank(tier)
          /\ (entered # <<>> /\ Last(entered) = "statistical") => entered' = entered
          /\ Len(entered') <= Len(entered) + 1]_vars

\* a run that went through all three tiers and succeeded
C2_Witness ==
    /\ pc = "done" /\ retval = "True"
    /\ entered = <<"ml", "adtk", "statistical">>
    /\ df.rows > 1

SameResult(r) == anomaly_scores = r.scores /\ contributions = r.contributions

(* C3: when a tier is unavailable or fails as a whole, the scores and     *)
(* contributor strings are those the next lower tier gives when it is      *)
(* requested directly on the input table: a degraded ml run enters         *)
(* adtk_detect next and ends with the result of adtk on the input, a       *)
(* degraded adtk run enters statistical_detect next and ends with the      *)
(* result of statistical on the input.                                     *)
C3_FallbackEqualsDirect ==
    (HasResult /\ Len(entered) >= 2) =>
        /\ entered[1] = "ml" =>
              /\ entered[2] = "adtk"
              /\ Len(entered) = 2 => SameResult(adtk_body(input, throws))
              /\ Len(entered) = 3 =>
                    entered[3] = "statistical" /\ SameResult(statistical_detect(input))
        /\ entered[1] = "adtk" =>
              /\ entered[2] = "statistical"
              /\ SameResult(statistical_detect(input))

\* ml without its dependency, scored by the Distribution detector, on a
\* table with a missing value and a non-zero score
C3_Witness ==
    /\ pc = "done" /\ retval = "True"
    /\ ~PYOD_AVAILABLE /\ entered = <<"ml", "adtk">>
    /\ HasNaN(input)
    /\ \E i \in 1..Len(anomaly_scores) : anomaly_scores[i] > 0

SchemaInvalid(t) ==
    t.readable /\ (~HasName(t, timestamp_col) \/ FeatureCount(t) = 0)

(* C4: if the loaded table lacks the timestamp column or has no other     *)
(* column, no detector is ever invoked, the output file is never written,  *)
(* and the run ends reporting failure.                                     *)
C4_SchemaFailsFast ==
    SchemaInvalid(input) =>
        /\ entered = <<>> /\ tier = "none"
        /\ output = NoTable
        /\ pc \in {"start", "done"}
        /\ pc = "done" => retval = "False"

\* a finished run on a table that has only the timestamp column
C4_Witness ==
    /\ pc = "done" /\ retval = "False"
    /\ input.readable /\ HasName(input, timestamp_col)
    /\ FeatureCount(input) = 0 /\ input.rows > 0
    /\ Last(diagnostics) = "No feature columns found"

\* the sub-score and the column position of feature c in a row_scores dict
SubOf(items, c) == items[CHOOSE k \in 1..Len(items) : items[k][1] = c][2]

PosOf(items, c) == CHOOSE k \in 1..Len(items) : items[k][1] = c

Listed(list) == {list[k][1] : k \in 1..Len(list)}

\* list is the ranking of items: min(3, #features) distinct features, each
\* with its formatted sub-score, ordered by sub-score descending and by
\* column on ties, and no unlisted feature would rank before a listed one
IsRanking(list, items) ==
    /\ Len(list) = Min2(3, Len(items))
    /\ Cardinality(Listed(list)) = Len(list)
    /\ \A k \in 1..Len(list) :
          /\ \E j \in 1..Len(items) : items[j][1] = list[k][1]
          /\ list[k][2] = Fmt1(SubOf(items, list[k][1]))
    /\ \A k \in 1..Len(list) - 1 :
          \/ SubOf(items, list[k][1]) > SubOf(items, list[k + 1][1])
          \/ /\ SubOf(items, list[k][1]) = SubOf(items, list[k + 1][1])
             /\ PosOf(items, list[k][1]) < PosOf(items, list[k + 1][1])
    /\ \A j \in 1..Len(items) :
          items[j][1] \notin Listed(list) =>
             \A k \in 1..Len(list) :
                \/ SubOf(items, list[k][1]) > items[j][2]
                \/ /\ SubOf(items, list[k][1]) = items[j][2]
                   /\ PosOf(items, list[k][1]) < j

(* C5: for every row under every tier the contributor list has exactly    *)
(* min(3, number of features) entries, they are the features with the      *)
(* largest sub-scores of the row in non-increasing order, and features     *)
(* with equal sub-scores appear in column order.                           *)
C5_TopContributors ==
    HasResult =>
        /\ Len(row_scores) = df.rows
        /\ \A i \in 1..Len(contributions) :
              /\ Len(row_scores[i]) = FeatureCount(input)
              /\ \A k \in 1..Len(row_scores[i]) : row_scores[i][k][1] = feature_cols(input)[k]
              /\ IsRanking(contributions[i], row_scores[i])

\* four features; in some row a later column ranks before an earlier one,
\* two listed features tie on a positive sub-score, and the dropped feature
\* has a positive sub-score
C5_Witness ==
    /\ HasResult /\ FeatureCount(input) = 4
    /\ \E i \in 1..Len(contributions) :
          /\ Len(contributions[i]) = 3
          /\ contributions[i][1][1] > contributions[i][2][1]
          /\ \E k \in 1..2 : /\ contributions[i][k][2] = contributions[i][k + 1][2]
                             /\ contributions[i][k][2] > 0
          /\ \E j \in 1..4 : /\ row_scores[i][j][1] \notin Listed(contributions[i])
                             /\ row_scores[i][j][2] > 0

\* all present values of the column are equal
ZeroVariance(col) ==
    \A a \in 1..Len(col) : \A b \in 1..Len(col) :
        (col[a] # NaN /\ col[b] # NaN) => col[a] = col[b]

(* C6: a feature whose values are all equal over the dataset has          *)
(* sub-score 0 in every row under every tier, the per-feature fallback of  *)
(* the Distribution detector and the contributions of the Multivariate     *)
(* detector included.                                                      *)
C6_ZeroVarianceScoresZero ==
    HasResult =>
        \A i \in 1..Len(row_scores) : \A k \in 1..Len(row_scores[i]) :
            ZeroVariance(input.col[row_scores[i][k][1]]) => row_scores[i][k][2] = 0

(* C7: on a successful run the written table has the input's rows in      *)
(* order, every input column with its values unchanged (missing values     *)
(* stay missing), and exactly the two columns anomaly_score_0_100 and      *)
(* top_contributors appended in this order, one entry per row.             *)
C7_OutputFrame ==
    (pc = "done" /\ retval = "True") =>
        /\ output.readable
        /\ output.header = input.header \o <<anomaly_score_0_100, top_contributors>>
        /\ output.rows = input.rows
        /\ DOMAIN output.col = DOMAIN input.col \cup {anomaly_score_0_100, top_contributors}
        /\ \A k \in 1..Len(input.header) :
              output.col[input.header[k]] = input.col[input.header[k]]
        /\ Len(output.col[anomaly_score_0_100]) = input.rows
        /\ Len(output.col[top_contributors]) = input.rows
        /\ \A i \in 1..input.rows :
              /\ output.col[anomaly_score_0_100][i] = Round1(anomaly_scores[i])
              /\ output.col[top_contributors][i] = contributions[i]

\* a successful Multivariate run on a table with a missing value
C7_Witness ==
    /\ pc = "done" /\ retval = "True"
    /\ tier = "ml" /\ Last(entered) = "ml"
    /\ HasNaN(input) /\ X # <<>>
    /\ \E c \in DOMAIN output.col : \E i \in 1..output.rows :
          c > timestamp_col /\ output.col[c][i] = NaN

\* the Distribution detector produced the result itself
AdtkScored == HasResult /\ Last(entered) = "adtk"

\* s is min(100, d * 50) in score units, for d = dist4 / iqr4
IsDistanceScore(s, dist4, iqr4) ==
    IF dist4 >= 2 * iqr4 THEN s = 100 * Scale
    ELSE s * iqr4 <= 50 * Scale * dist4 /\ 50 * Scale * dist4 < (s + 1) * iqr4

\* 4 * d * IQR for a present value v: 0 inside [Q1, Q3]
BoxDistance4(col, v) ==
    IF 4 * v < Quart4(col, 1) THEN Quart4(col, 1) - 4 * v
    ELSE IF 4 * v > Quart4(col, 3) THEN 4 * v - Quart4(col, 3)
    ELSE 0

IsZScore(s, col, v) ==
    LET n == Cnt(col)
        S == SumSeq(Present(col))
        Q == SumSq(Present(col))
        a == (n * v - S) * (n * v - S) * (n - 1)
        b == n * (n * Q - S * S)
        r == ScaledRatioSq(100 * Scale, a, b)
    IN  IF a >= 9 * b THEN s = 100 * Scale
        ELSE 9 * s * s <= r /\ r < 9 * (s + 1) * (s + 1)

StdNonZero(col) ==
    Cnt(col) >= 2 /\ \E a \in 1..Len(col) : \E b \in 1..Len(col) :
        col[a] # NaN /\ col[b] # NaN /\ col[a] # col[b]

(* C9: in the Point-Statistic detector, for every row and every feature   *)
(* with non-zero standard deviation the sub-score is                       *)
(* min(100, (|value - mean| / std) / 3 * 100), mean and std taken over the *)
(* whole dataset (for a missing value the expression is NaN and the        *)
(* minimum 100); the row's score is the maximum of its sub-scores and is   *)
(* the sub-score of the first listed contributor.                          *)
C9_PointStatistic ==
    (HasResult /\ Last(entered) = "statistical") =>
        \A i \in 1..Len(row_scores) :
            /\ \A k \in 1..Len(row_scores[i]) :
                  LET col == input.col[row_scores[i][k][1]]
                  IN  StdNonZero(col) =>
                         IF col[i] = NaN THEN row_scores[i][k][2] = 100 * Scale
                         ELSE IsZScore(row_scores[i][k][2], col, col[i])
            /\ \A k \in 1..Len(row_scores[i]) : row_scores[i][k][2] <= anomaly_scores[i]
            /\ \E k \in 1..Len(row_scores[i]) : row_scores[i][k][2] = anomaly_scores[i]
            /\ contributions[i][1][2] = Fmt1(anomaly_scores[i])
            /\ SubOf(row_scores[i], contributions[i][1][1]) = anomaly_scores[i]

\* a run of the Point-Statistic detector where a present value reaches the
\* cap of 100 (z >= 3) and another row scores strictly between 0 and 100
C9_Witness ==
    /\ HasResult /\ Last(entered) = "statistical" /\ ~HasNaN(input)
    /\ \E i \in 1..Len(anomaly_scores) : anomaly_scores[i] = 100 * Scale
    /\ \E i \in 1..Len(anomaly_scores) :
          anomaly_scores[i] > 0 /\ anomaly_scores[i] < 100 * Scale

InLines(line) == \E k \in 1..Len(diagnostics) : diagnostics[k] = line

\* the diagnostic line that reports a fallback
Reported(d) ==
    CASE d[1] = "ml unavailable" -> InLines("PyOD not available")
      [] d[1] = "ml failed" -> InLines("ML detection failed")
      [] d[1] = "adtk unavailable" -> InLines("ADTK not available")
      [] d[1] = "adtk failed" -> InLines("ADTK failed")
      [] OTHER -> InLines("Statistical fallback for feature")

(* C10: every degrade of a run is reported in its diagnostic output: each *)
(* whole-detector transition, by unavailability or by failure, and each    *)
(* per-feature degradation inside the Distribution detector has a          *)
(* diagnostic line by the time it has happened.                            *)
C10_EveryDegradeReported ==
    \A k \in 1..Len(degrades) : Reported(degrades[k])

\* the Multivariate detector produced the result itself
MlScored == HasResult /\ Last(entered) = "ml"

\* s is 100 * (r - lo) / (hi - lo) in score units
IsRescaled(s, r, lo, hi) ==
    /\ s * (hi - lo) <= 100 * Scale * (r - lo)
    /\ 100 * Scale * (r - lo) < (s + 1) * (hi - lo)

(* C11: in the Multivariate detector the raw decision scores are rescaled *)
(* linearly with the run's minimum mapped to 0 and its maximum to 100:     *)
(* when min < max every row with the minimal raw score scores 0, every row *)
(* with the maximal one scores 100 (so both values occur) and every other  *)
(* row lies on the line between them; when min = max, in particular for a  *)
(* single-row dataset, every row scores 0.                                 *)
C11_MinMaxRescale ==
    MlScored =>
        /\ Len(raw_scores) = df.rows /\ Len(anomaly_scores) = df.rows
        /\ IF SeqMin(raw_scores) < SeqMax(raw_scores)
           THEN /\ \E i \in 1..df.rows : anomaly_scores[i] = 0
                /\ \E i \in 1..df.rows : anomaly_scores[i] = 100 * Scale
                /\ \A i \in 1..df.rows :
                      /\ raw_scores[i] = SeqMin(raw_scores) => anomaly_scores[i] = 0
                      /\ raw_scores[i] = SeqMax(raw_scores) =>
                            anomaly_scores[i] = 100 * Scale
                      /\ IsRescaled(anomaly_scores[i], raw_scores[i],
                                    SeqMin(raw_scores), SeqMax(raw_scores))
           ELSE \A i \in 1..df.rows : anomaly_scores[i] = 0
        /\ df.rows = 1 => anomaly_scores = <<0>>

\* a Multivariate run whose raw scores differ: one row at 0, one at 100 and
\* one strictly between them
C11_Witness ==
    /\ MlScored /\ pc = "done" /\ retval = "True"
    /\ SeqMin(raw_scores) < SeqMax(raw_scores)
    /\ \E i \in 1..df.rows : anomaly_scores[i] = 0
    /\ \E i \in 1..df.rows : anomaly_scores[i] = 100 * Scale
    /\ \E i \in 1..df.rows : anomaly_scores[i] > 0 /\ anomaly_scores[i] < 100 * Scale

\* the rows of a score sequence that satisfy P, for the three buckets
HighRows(sc, one) == {i \in 1..Len(sc) : sc[i] > 70 * one}

MediumRows(sc, one) == {i \in 1..Len(sc) : sc[i] > 30 * one /\ sc[i] <= 70 * one}

LowRows(sc, one) == {i \in 1..Len(sc) : sc[i] <= 30 * one}

\* the counts c are the bucket sizes of the scores sc, every row lies in
\* exactly one bucket and the counts add up to the rows of the run
IsSummaryOf(c, sc, one) ==
    /\ c.high = Cardinality(HighRows(sc, one))
    /\ c.medium = Cardinality(MediumRows(sc, one))
    /\ c.low = Cardinality(LowRows(sc, one))
    /\ c.high + c.medium + c.low = input.rows
    /\ \A i \in 1..Len(sc) :
          Cardinality({b \in {HighRows(sc, one), MediumRows(sc, one), LowRows(sc, one)} :
                          i \in b}) = 1

\* m is the score of a row, and no row has a larger one
IsMaxOf(m, sc) ==
    /\ \E i \in 1..Len(sc) : m = sc[i]
    /\ \A i \in 1..Len(sc) : sc[i] <= m

(* C12: the summary of a run counts each row in exactly one bucket (high   *)
(* when score > 70, medium when 30 < score <= 70, low when score <= 30),   *)
(* so high + medium + low is the number of rows, and the reported maximum  *)
(* is the largest row score, printed with one decimal: for the summary     *)
(* detect_anomalies prints from its scores, and for the one the web layer  *)
(* computes from the written file.                                         *)
C12_SummaryBuckets ==
    /\ retval = "True" =>
          /\ IsSummaryOf(summary, anomaly_scores, Scale)
          /\ IsMaxOf(summary.max,
                     [i \in 1..Len(anomaly_scores) |-> Round1(anomaly_scores[i])])
    /\ pc = "reported" =>
          /\ IsSummaryOf(job_summary, output.col[anomaly_score_0_100], 10)
          /\ IsMaxOf(job_summary.max, output.col[anomaly_score_0_100])
          /\ job_summary.total = input.rows

\* a run whose summary has rows in all three buckets, read back by the web
\* layer
C12_Witness ==
    /\ pc = "reported"
    /\ summary.high > 0 /\ summary.medium > 0 /\ summary.low > 0
    /\ job_summary.high > 0 /\ job_summary.medium > 0 /\ job_summary.low > 0
    /\ job_summary.max = 100 * 10

\* detect_anomalies has returned
Returned == pc \in {"done", "reported"}

(* C13: for every input (an unreadable file, a table without data rows    *)
(* and an unwritable output location included) detect_anomalies ends by    *)
(* returning True or False, never by an exception, and it returns True     *)
(* exactly when the augmented table was written: a run that returns False  *)
(* (exit status 1) has written no output file, and a run that wrote the    *)
(* output file returns True (exit status 0).                               *)
C13_SuccessIffWritten ==
    /\ Returned => retval \in {"True", "False"}
    /\ ~Returned => retval = "none" /\ output = NoTable
    /\ Returned => (retval = "True" <=> output # NoTable)
    /\ Returned => (exit_status = 0 <=> output # NoTable)

\* the kinds of the fallbacks taken so far
DegradeKinds == {degrades[k][1] : k \in 1..Len(degrades)}

(* C14: in the Distribution detector, when the evaluation of a feature    *)
(* throws, only the sub-scores of that feature are replaced by the         *)
(* Point-Statistic formula for that feature; the sub-scores of every       *)
(* feature whose evaluation does not throw are those of the distribution   *)
(* formula, in the same row and in every other row; the detector does not  *)
(* degrade as a whole (it stays the active tier and the Point-Statistic    *)
(* detector is not called), and every row receives a score, the maximum of *)
(* its sub-scores.                                                         *)
C14_PerFeatureFallback ==
    AdtkScored =>
        /\ tier = "adtk" /\ "adtk failed" \notin DegradeKinds
        /\ \A k \in 1..Len(entered) : entered[k] # "statistical"
        /\ Len(row_scores) = input.rows /\ Len(anomaly_scores) = input.rows
        /\ \A i \in 1..Len(row_scores) :
              /\ Len(row_scores[i]) = FeatureCount(input)
              /\ \A k \in 1..Len(row_scores[i]) :
                    LET c == row_scores[i][k][1]
                    IN  /\ c = feature_cols(input)[k]
                        /\ row_scores[i][k][2] =
                              IF c \in throws
                              THEN ZSubScore(input.col[c], input.col[c][i])
                              ELSE IqrSubScore(input.col[c], input.col[c][i])
              /\ \A k \in 1..Len(row_scores[i]) : row_scores[i][k][2] <= anomaly_scores[i]
              /\ \E k \in 1..Len(row_scores[i]) : row_scores[i][k][2] = anomaly_scores[i]

\* exactly one of several features throws; in one row its Point-Statistic
\* sub-score differs from what the distribution formula gives it, and
\* another feature of that row has a distribution sub-score that differs
\* from its Point-Statistic one
C14_Witness ==
    /\ AdtkScored /\ pc = "done" /\ retval = "True"
    /\ Cardinality(throws) = 1 /\ FeatureCount(input) >= 2
    /\ \E i \in 1..Len(row_scores) : \E k \in 1..Len(row_scores[i]) :
          \E j \in 1..Len(row_scores[i]) :
             LET c == row_scores[i][k][1]
                 d == row_scores[i][j][1]
             IN  /\ c \in throws /\ d \notin throws
                 /\ row_scores[i][k][2] > 0
                 /\ row_scores[i][k][2] # IqrSubScore(input.col[c], input.col[c][i])
                 /\ row_scores[i][j][2] > 0
                 /\ row_scores[i][j][2] # ZSubScore(input.col[d], input.col[d][i])

\* the tier the claim lets a request start at
ClaimedStart(r) ==
    CASE r = "ml" -> "ml"
      [] r = "adtk" -> "adtk"
      [] r = "statistical" -> "statistical"
      [] r = "omitted" -> "adtk"
      [] OTHER -> "statistical"

\* the tier a request starts at: as ClaimedStart, but a method omitted in
\* the web form starts at the Point-Statistic detector
ActualStart(e, r) ==
    IF r = "omitted" /\ e = "web" THEN "statistical" ELSE ClaimedStart(r)

\* the run starts at tier t whatever the libraries, and a run with a method
\* name outside ml, adtk and statistical that wrote its rows succeeds
StartsAt(t) ==
    /\ (pc = "detect" /\ entered = <<>>) => tier = t
    /\ entered # <<>> => entered[1] = t
    /\ t = "statistical" => (tier \in {"none", "statistical"} /\ Len(entered) <= 1)
    /\ (requested = "other" /\ Returned /\ input.rows > 0 /\ output # NoTable) =>
          (retval = "True" /\ entered = <<"statistical">>)

(* C15 as stated: the requested method name alone selects the tier a run  *)
(* starts at: ml the Multivariate detector, adtk the Distribution          *)
(* detector, statistical the Point-Statistic detector only, an omitted     *)
(* method the Distribution detector, and any other name the                *)
(* Point-Statistic detector, without failing the run.                      *)
C15_Original == StartsAt(ClaimedStart(requested))

(* C15 amended: as stated, except that an omitted method starts at the    *)
(* Distribution detector only on the command line and in a direct call;    *)
(* when the web form omits the method the web layer requests statistical   *)
(* and the run starts at, and stays in, the Point-Statistic detector.      *)
C15_StartTier == StartsAt(ActualStart(entry, requested))

\* a web run without a method that was scored by the Point-Statistic
\* detector although both libraries are installed
C15_Witness ==
    /\ entry = "web" /\ requested = "omitted"
    /\ ADTK_AVAILABLE /\ PYOD_AVAILABLE
    /\ pc = "done" /\ retval = "True"
    /\ entered = <<"statistical">>

\* the thread of job j has changed in this step
Stepped(j) == threads'[j] # threads[j]

(* C16: in the web layer, when a new detection is submitted while an      *)
(* earlier detection thread is still running, what /status returns         *)
(* describes only the most recently submitted job: every piece of the      *)
(* output comes from the latest job, a step of an earlier job's thread     *)
(* never changes the status, progress or output, the status is completed   *)
(* or failed only after the latest job's process has exited (or could not  *)
(* be started), and the progress never decreases while the status stays    *)
(* running.                                                                *)
C16_StatusOfLatestJob ==
    /\ [](\A k \in 1..Len(get_status.output) : get_status.output[k][1] = latest)
    /\ [](get_status.status \in {"completed", "failed"} =>
             /\ latest > 0
             /\ threads[latest].proc = "exited" \/ threads[latest].pc = "end")
    /\ [][\A j \in 1..MaxJobs : (Stepped(j) /\ j # latest) => current_job' = current_job]_vars
    /\ [][(current_job.status = "running" /\ current_job'.status = "running") =>
             current_job'.progress >= current_job.progress]_vars

====
